---- MODULE Spec2Model ----
(***************************************************************************)
(* Model of the MD3 decoder of src/lib.rs (Md3::from_bytes and the         *)
(* readers it calls) over a byte buffer.                                   *)
(*                                                                         *)
(* Representation of the Rust values:                                      *)
(*   u8            0..255                                                  *)
(*   i16, i32      the integer                                             *)
(*   f32           the i32 that has the same 32 bits (f32::to_bits)        *)
(*   String        the sequence of its UTF-8 bytes                         *)
(*   u64 / usize   the integer; a value obtained by `as u64` from a        *)
(*                 negative i32 (2^64 + v) is written as the negative v    *)
(*                 itself, so that a wrapping add is the integer add       *)
(***************************************************************************)
EXTENDS Integers, Sequences, FiniteSets, TLC

VARIABLES
    input,          \* what the buffer was built from (kept for the properties)
    bytes,          \* the argument of from_bytes
    pc,             \* position of from_bytes in its body
    buff,           \* the Cursor: position, pending panic, primitive reads so far
    md3_header,     \* local md3_header of from_bytes
    frames,         \* local frames
    tags,           \* local tags
    surfaces,       \* vec of read_many while it reads the surfaces
    surface_starts, \* surface_start of every finished read_surface call
    outcome         \* what from_bytes handed to its caller, or the panic

vars == <<input, bytes, pc, buff, md3_header, frames, tags, surfaces,
          surface_starts, outcome>>

----------------------------------------------------------------------------
(* Constants of the program *)

MD3_MAGIC == 860898377      \* 0x33504449

MAX_QPATH == 64

FRAME_NAME_LEN == 16

----------------------------------------------------------------------------
(* Cursor<&[u8]> and the primitive reads *)

NUL == 0

\* Cursor::new(bytes)
NewCursor == [pos |-> 0, err |-> "none", reads |-> <<>>]

\* `v as u64` / `v as usize` of an i32: sign extension (negative v stands for 2^64 + v)
AsU64(v) == v

\* a set_position that refuses a position beyond the end of the buffer
set_position_checked(r, p) ==
    IF r.err # "none" THEN r
    ELSE IF p < 0 \/ p > Len(bytes) THEN [r EXCEPT !.err = "UnexpectedEof"]
    ELSE [r EXCEPT !.pos = p]

\* Cursor::set_position: never checks the position against the buffer
set_position(r, p) == IF r.err # "none" THEN r ELSE [r EXCEPT !.pos = p]

\* position p is not inside the buffer (as is every position of 2^63 or more)
IsBeyond(p) == p < 0 \/ p >= Len(bytes)

\* the n bytes at the cursor are not all inside the buffer
Missing(r, n) == IsBeyond(r.pos) \/ r.pos + n > Len(bytes)

\* one read_exact of n bytes through the cursor, followed by unwrap():
\* the read is logged, and it either advances the cursor by n or panics
Consume(r, n) ==
    IF Missing(r, n)
    THEN [r EXCEPT !.err = "UnexpectedEof", !.reads = Append(@, <<r.pos, n, FALSE>>)]
    ELSE [r EXCEPT !.pos = @ + n, !.reads = Append(@, <<r.pos, n, TRUE>>)]

\* two's complement value of the top byte of a little-endian integer
SignedByte(b) == IF b >= 128 THEN b - 256 ELSE b

\* buff.read_u8().unwrap()
read_u8(r) ==
    IF r.err # "none" THEN [r |-> r, v |-> 0]
    ELSE [r |-> Consume(r, 1),
          v |-> IF Missing(r, 1) THEN 0 ELSE bytes[r.pos + 1]]

\* buff.read_i32::<LittleEndian>().unwrap()
read_s32(r) ==
    IF r.err # "none" THEN [r |-> r, v |-> 0]
    ELSE [r |-> Consume(r, 4),
          v |-> IF Missing(r, 4) THEN 0
                ELSE bytes[r.pos + 1] + 256 * bytes[r.pos + 2]
                     + 65536 * bytes[r.pos + 3]
                     + 16777216 * SignedByte(bytes[r.pos + 4])]

\* buff.read_i16::<LittleEndian>().unwrap()
read_s16(r) ==
    IF r.err # "none" THEN [r |-> r, v |-> 0]
    ELSE [r |-> Consume(r, 2),
          v |-> IF Missing(r, 2) THEN 0
                ELSE bytes[r.pos + 1] + 256 * SignedByte(bytes[r.pos + 2])]

\* buff.read_f32::<LittleEndian>().unwrap(): the float with these 32 bits
read_f32(r) == read_s32(r)

\* the loop of read_string, `for _ in 0..len { bytes.push(buff.read_u8().unwrap()) }`:
\* the read_u8 calls succeed while bytes are left (n of them), then one panics
read_bytes(r, len) ==
    IF r.err # "none" THEN [r |-> r, v |-> <<>>]
    ELSE LET left == IF IsBeyond(r.pos) THEN 0 ELSE Len(bytes) - r.pos
             n    == IF left < len THEN left ELSE len
             rn   == [r EXCEPT !.pos = @ + n,
                               !.reads = @ \o [i \in 1..n |-> <<r.pos + i - 1, 1, TRUE>>]]
         IN  [r |-> IF n < len THEN read_u8(rn).r ELSE rn,
              v |-> SubSeq(bytes, r.pos + 1, r.pos + n)]

NotNul(c) == c # NUL

\* Iterator::filter(|x| *x != '\0' as u8): drops the NULs, keeps what follows them
filter_not_nul(s) == SelectSeq(s, NotNul)

\* Iterator::take_while(|x| *x != '\0' as u8): the elements before the first NUL
take_while_not_nul(s) ==
    SubSeq(s, 1, CHOOSE n \in 0..Len(s) :
                    /\ \A i \in 1..n : NotNul(s[i])
                    /\ n = Len(s) \/ ~NotNul(s[n + 1]))

\* s[i] exists and is a continuation byte, 10xxxxxx
IsCont(s, i) == i >= 1 /\ Len(s) >= i /\ s[i] >= 128 /\ s[i] <= 191

\* bytes of the sequence that lead byte b starts; 0 when b cannot lead one
Utf8Width(b) ==
    IF b < 128 THEN 1
    ELSE IF b >= 194 /\ b <= 223 THEN 2
    ELSE IF b >= 224 /\ b <= 239 THEN 3
    ELSE IF b >= 240 /\ b <= 244 THEN 4
    ELSE 0

\* a well-formed sequence starts at s[i]: no overlong form, no surrogate,
\* nothing above U+10FFFF
Utf8CharAt(s, i) ==
    /\ Utf8Width(s[i]) > 0
    /\ \A k \in 1..(Utf8Width(s[i]) - 1) : IsCont(s, i + k)
    /\ s[i] = 224 => s[i + 1] >= 160
    /\ s[i] = 237 => s[i + 1] <= 159
    /\ s[i] = 240 => s[i + 1] >= 144
    /\ s[i] = 244 => s[i + 1] <= 143

\* the continuation byte s[i] belongs to the sequence of the lead byte before it
Utf8Covered(s, i) ==
    \E k \in 1..3 :
        /\ i - k >= 1
        /\ ~IsCont(s, i - k)
        /\ \A j \in 1..(k - 1) : IsCont(s, i - j)
        /\ Utf8Width(s[i - k]) > k

\* String::from_utf8(..).is_ok(): every byte starts a well-formed sequence or
\* continues the one before it
from_utf8_ok(s) ==
    \A i \in 1..Len(s) : IF IsCont(s, i) THEN Utf8Covered(s, i) ELSE Utf8CharAt(s, i)

\* String::from_utf8(text).unwrap()
from_utf8(r, text) ==
    IF from_utf8_ok(text) THEN [r |-> r, v |-> text]
    ELSE [r |-> [r EXCEPT !.err = "FromUtf8Error"], v |-> <<>>]

\* the last line of read_string, given the reader and the bytes of its loop
string_of(a) ==
    IF a.r.err # "none" THEN [r |-> a.r, v |-> <<>>]
    ELSE from_utf8(a.r, take_while_not_nul(a.v))

read_string(r0, len) == string_of(read_bytes(r0, len))

----------------------------------------------------------------------------
(* Record decoders.  The field expressions of a struct literal are         *)
(* evaluated in the order they are written, each reader starting where the *)
(* one before it left the cursor: read_fields runs the readers named in    *)
(* fields and collects their values in that order.  A panic of a reader    *)
(* unwinds the function it is in: the fields after it are not read and no  *)
(* value is made.                                                          *)

\* what stands for the value of a function that panicked
NoValue == <<>>

Unwind(a) == [r |-> a.r, v |-> NoValue]

\* the struct literal v, made after the readers whose result is a
struct(a, v) == IF a.r.err # "none" THEN Unwind(a) ELSE [r |-> a.r, v |-> v]

RECURSIVE read_fields(_, _, _)
RECURSIVE read_vec3(_)

read_field(r, field) ==
    CASE field = "s32"        -> read_s32(r)
      [] field = "s16"        -> read_s16(r)
      [] field = "f32"        -> read_f32(r)
      [] field = "vec3"       -> read_vec3(r)
      [] field = "name"       -> read_string(r, MAX_QPATH)
      [] field = "frame_name" -> read_string(r, FRAME_NAME_LEN)

next_field(a, fields, vals) == read_fields(a.r, fields, Append(vals, a.v))

read_fields(r, fields, vals) ==
    IF r.err # "none" \/ Len(vals) = Len(fields) THEN [r |-> r, v |-> vals]
    ELSE next_field(read_field(r, fields[Len(vals) + 1]), fields, vals)

vec3_of(a) ==
    struct(a, [x |-> a.v[1], y |-> a.v[2], z |-> a.v[3]])

read_vec3(r0) == vec3_of(read_fields(r0, <<"f32", "f32", "f32">>, <<>>))

md3_header_of(a) ==
    struct(a, [ident |-> a.v[1], version |-> a.v[2], name |-> a.v[3], flags |-> a.v[4],
               num_frames |-> a.v[5], num_tags |-> a.v[6], num_surfaces |-> a.v[7],
               num_skins |-> a.v[8], ofs_frames |-> a.v[9], ofs_tags |-> a.v[10],
               ofs_surfaces |-> a.v[11], ofs_eof |-> a.v[12]])

read_md3_header(r0) ==
    md3_header_of(read_fields(r0, <<"s32", "s32", "name", "s32", "s32", "s32", "s32",
                                    "s32", "s32", "s32", "s32", "s32">>, <<>>))

frame_of(a) ==
    struct(a, [min_bounds |-> a.v[1], max_bounds |-> a.v[2], local_origin |-> a.v[3],
               radius |-> a.v[4], name |-> a.v[5]])

read_frame(r0) ==
    frame_of(read_fields(r0, <<"vec3", "vec3", "vec3", "f32", "frame_name">>, <<>>))

tag_of(a) ==
    struct(a, [name |-> a.v[1], origin |-> a.v[2], axis |-> <<a.v[3], a.v[4], a.v[5]>>])

read_tag(r0) == tag_of(read_fields(r0, <<"name", "vec3", "vec3", "vec3", "vec3">>, <<>>))

surface_header_of(a) ==
    struct(a, [ident |-> a.v[1], name |-> a.v[2], flags |-> a.v[3], num_frames |-> a.v[4],
               num_shaders |-> a.v[5], num_verts |-> a.v[6], num_triangles |-> a.v[7],
               ofs_triangles |-> a.v[8], ofs_shaders |-> a.v[9], ofs_st |-> a.v[10],
               ofs_xyznormal |-> a.v[11], ofs_end |-> a.v[12]])

read_surface_header(r0) ==
    surface_header_of(read_fields(r0, <<"s32", "name", "s32", "s32", "s32", "s32", "s32",
                                        "s32", "s32", "s32", "s32", "s32">>, <<>>))

shader_of(a) ==
    struct(a, [name |-> a.v[1], shader_index |-> a.v[2]])

read_shader(r0) == shader_of(read_fields(r0, <<"name", "s32">>, <<>>))

triangle_of(a) ==
    struct(a, [indexes |-> <<a.v[1], a.v[2], a.v[3]>>])

read_triangle(r0) == triangle_of(read_fields(r0, <<"s32", "s32", "s32">>, <<>>))

tex_coord_of(a) ==
    struct(a, [st |-> <<a.v[1], a.v[2]>>])

read_tex_coord(r0) == tex_coord_of(read_fields(r0, <<"f32", "f32">>, <<>>))

vertex_of(a) ==
    struct(a, [x |-> a.v[1], y |-> a.v[2], z |-> a.v[3], normal |-> a.v[4]])

read_vertex(r0) == vertex_of(read_fields(r0, <<"s16", "s16", "s16", "s16">>, <<>>))

----------------------------------------------------------------------------
(* read_many.  The reader argument is a record that names the function; the *)
(* closure of read_surface carries the num_verts it captured.               *)

\* `for _ in 0..count` has another iteration after i of them
\* (a negative i32 count became 2^64 + count, above every i)
LoopContinues(i, count) == count < 0 \/ i < count

\* vec.push(x)
Push(vec, x) == Append(vec, x)

RECURSIVE read_many_from(_, _, _, _)
RECURSIVE call(_, _)

\* vec.push(reader(buff)), a being what reader(buff) gave, and the rest of the loop
read_many_push(a, reader, count, vec) ==
    read_many_from(a.r, reader, count, Push(vec, a.v))

\* the loop of read_many with vec as it stands; a panic ends it
read_many_from(r, reader, count, vec) ==
    IF r.err # "none" \/ ~LoopContinues(Len(vec), count)
    THEN [r |-> r, v |-> vec]
    ELSE read_many_push(call(reader, r), reader, count, vec)

read_many(r, reader, count) == read_many_from(r, reader, count, <<>>)

call(reader, r) ==
    CASE reader.f = "read_frame"     -> read_frame(r)
      [] reader.f = "read_tag"       -> read_tag(r)
      [] reader.f = "read_shader"    -> read_shader(r)
      [] reader.f = "read_triangle"  -> read_triangle(r)
      [] reader.f = "read_tex_coord" -> read_tex_coord(r)
      [] reader.f = "read_vertex"    -> read_vertex(r)
      [] reader.f = "closure"        ->
             read_many(r, [f |-> "read_vertex"], AsU64(reader.num_verts))

\* surface_start + ofs as u64 is 2^64 or more
AddOverflows(base, ofs) == (base < 0 /\ ofs < 0) \/ ((base < 0 \/ ofs < 0) /\ base + ofs >= 0)

\* a seek that takes the offset of a surface array from the start of the file
seek_in_file(r, surface_start, ofs, overflow_checks) == set_position(r, AsU64(ofs))

\* buff.set_position(surface_start + ofs as u64); with overflow checks on
\* (debug build) an overflowing sum panics, without them it wraps
seek_in_surface(r, surface_start, ofs, overflow_checks) ==
    IF r.err # "none" THEN r
    ELSE IF overflow_checks /\ AddOverflows(surface_start, AsU64(ofs))
         THEN [r EXCEPT !.err = "AddOverflow"]
         ELSE set_position(r, surface_start + AsU64(ofs))

\* read_surface, statement by statement from its end: each step gets the
\* values bound so far (start is surface_start, h surface_header) and the
\* reader result of the statement before it, whose panic unwinds read_surface

\* Surface { header, shaders, triangles, tex_coords, vertices }
surface_of(h, shaders, triangles, tex_coords, vx) ==
    struct(vx, [header |-> h, shaders |-> shaders, triangles |-> triangles,
                tex_coords |-> tex_coords, vertices |-> vx.v])

\* set_position(surface_start + ofs_xyznormal); let vertices = read_many(closure, num_frames)
surface_vertices(start, h, shaders, triangles, st, oc) ==
    IF st.r.err # "none" THEN Unwind(st) ELSE
    surface_of(h, shaders, triangles, st.v,
               read_many(seek_in_surface(st.r, start, h.ofs_xyznormal, oc),
                         [f |-> "closure", num_verts |-> h.num_verts], AsU64(h.num_frames)))

\* set_position(surface_start + ofs_st); let tex_coords = read_many(read_tex_coord, num_verts)
surface_tex_coords(start, h, shaders, tr, oc) ==
    IF tr.r.err # "none" THEN Unwind(tr) ELSE
    surface_vertices(start, h, shaders, tr.v,
                     read_many(seek_in_surface(tr.r, start, h.ofs_st, oc),
                               [f |-> "read_tex_coord"], AsU64(h.num_verts)), oc)

\* set_position(surface_start + ofs_triangles); let triangles = read_many(read_triangle, num_triangles)
surface_triangles(start, h, sh, oc) ==
    IF sh.r.err # "none" THEN Unwind(sh) ELSE
    surface_tex_coords(start, h, sh.v,
                       read_many(seek_in_surface(sh.r, start, h.ofs_triangles, oc),
                                 [f |-> "read_triangle"], AsU64(h.num_triangles)), oc)

\* set_position(surface_start + ofs_shaders); let shaders = read_many(read_shader, num_shaders)
surface_shaders(start, hd, oc) ==
    IF hd.r.err # "none" THEN Unwind(hd) ELSE
    surface_triangles(start, hd.v,
                      read_many(seek_in_surface(hd.r, start, hd.v.ofs_shaders, oc),
                                [f |-> "read_shader"], AsU64(hd.v.num_shaders)), oc)

\* let surface_start = buff.position(); let surface_header = read_surface_header(buff); ...
read_surface(r0, overflow_checks) ==
    surface_shaders(r0.pos, read_surface_header(r0), overflow_checks)

----------------------------------------------------------------------------
(* Md3::from_bytes, one action per statement of its body.  A panic of a    *)
(* reader unwinds from_bytes: nothing is returned.                         *)

NoHeader == [ident |-> 0]

Running == [tag |-> "running"]

Panic(r) == [tag |-> "panic", kind |-> r.err]

\* a from_bytes that decodes the whole header before it looks at the magic
CheckMagicAfterHeader ==
    /\ pc = "start"
    /\ \E h \in {read_md3_header(buff)} :
         IF h.r.err # "none"
         THEN /\ buff' = h.r
              /\ outcome' = Panic(h.r)
              /\ pc' = "done"
         ELSE IF h.v.ident = MD3_MAGIC
         THEN /\ buff' = set_position(h.r, 0)
              /\ outcome' = outcome
              /\ pc' = "header"
         ELSE /\ buff' = h.r
              /\ outcome' = [tag |-> "Err", kind |-> "InvalidData"]
              /\ pc' = "done"
    /\ UNCHANGED <<input, bytes, md3_header, frames, tags, surfaces, surface_starts>>

\* if Md3::read_s32(&mut buff) == MD3_MAGIC { buff.set_position(0); ... }
\* else { Err(Error::new(ErrorKind::InvalidData, ..)) }
CheckMagic ==
    /\ pc = "start"
    /\ \E a \in {read_s32(buff)} :
         IF a.r.err # "none"
         THEN /\ buff' = a.r
              /\ outcome' = Panic(a.r)
              /\ pc' = "done"
         ELSE IF a.v = MD3_MAGIC
         THEN /\ buff' = set_position(a.r, 0)
              /\ outcome' = outcome
              /\ pc' = "header"
         ELSE /\ buff' = a.r
              /\ outcome' = [tag |-> "Err", kind |-> "InvalidData"]
              /\ pc' = "done"
    /\ UNCHANGED <<input, bytes, md3_header, frames, tags, surfaces, surface_starts>>

\* let md3_header = Md3::read_md3_header(&mut buff);
ReadMd3Header ==
    /\ pc = "header"
    /\ \E h \in {read_md3_header(buff)} :
         /\ buff' = h.r
         /\ IF h.r.err # "none"
            THEN /\ outcome' = Panic(h.r)
                 /\ pc' = "done"
                 /\ md3_header' = md3_header
            ELSE /\ outcome' = outcome
                 /\ pc' = "frames"
                 /\ md3_header' = h.v
    /\ UNCHANGED <<input, bytes, frames, tags, surfaces, surface_starts>>

\* buff.set_position(md3_header.ofs_frames as u64);
\* let frames = Md3::read_many(&mut buff, Md3::read_frame, md3_header.num_frames as usize);
ReadFrames ==
    /\ pc = "frames"
    /\ \E a \in {read_many(set_position(buff, AsU64(md3_header.ofs_frames)),
                          [f |-> "read_frame"], AsU64(md3_header.num_frames))} :
         /\ buff' = a.r
         /\ IF a.r.err # "none"
            THEN /\ outcome' = Panic(a.r)
                 /\ pc' = "done"
                 /\ frames' = frames
            ELSE /\ outcome' = outcome
                 /\ pc' = "tags"
                 /\ frames' = a.v
    /\ UNCHANGED <<input, bytes, md3_header, tags, surfaces, surface_starts>>

\* buff.set_position(md3_header.ofs_tags as u64);
\* let tags = Md3::read_many(&mut buff, Md3::read_tag, md3_header.num_tags as usize);
ReadTags ==
    /\ pc = "tags"
    /\ \E a \in {read_many(set_position(buff, AsU64(md3_header.ofs_tags)),
                          [f |-> "read_tag"], AsU64(md3_header.num_tags))} :
         /\ buff' = a.r
         /\ IF a.r.err # "none"
            THEN /\ outcome' = Panic(a.r)
                 /\ pc' = "done"
                 /\ tags' = tags
            ELSE /\ outcome' = outcome
                 /\ pc' = "seek_surfaces"
                 /\ tags' = a.v
    /\ UNCHANGED <<input, bytes, md3_header, frames, surfaces, surface_starts>>

\* buff.set_position(md3_header.ofs_surfaces as u64);
SeekSurfaces ==
    /\ pc = "seek_surfaces"
    /\ buff' = set_position(buff, AsU64(md3_header.ofs_surfaces))
    /\ pc' = "surfaces"
    /\ UNCHANGED <<input, bytes, md3_header, frames, tags, surfaces,
                   surface_starts, outcome>>

\* a loop that tests its count after the first iteration
SurfaceLoopAtLeastOnce ==
    surfaces = <<>> \/ LoopContinues(Len(surfaces), AsU64(md3_header.num_surfaces))

\* the loop of read_many(&mut buff, Md3::read_surface, num_surfaces as usize)
\* has another iteration
SurfaceLoopContinues == LoopContinues(Len(surfaces), AsU64(md3_header.num_surfaces))

\* one iteration of read_many(&mut buff, Md3::read_surface, num_surfaces as usize):
\* vec.push(reader(buff)).  When the sum of a seek overflows, the build
\* decides between the panic and the wrapped position.
ReadSurface ==
    /\ pc = "surfaces"
    /\ SurfaceLoopContinues
    /\ \E overflow_checks \in BOOLEAN :
         \E a \in {read_surface(buff, overflow_checks)} :
           /\ buff' = a.r
           /\ IF a.r.err # "none"
              THEN /\ outcome' = Panic(a.r)
                   /\ pc' = "done"
                   /\ UNCHANGED <<surfaces, surface_starts>>
              ELSE /\ outcome' = outcome
                   /\ pc' = pc
                   /\ surfaces' = Push(surfaces, a.v)
                   /\ surface_starts' = Append(surface_starts, buff.pos)
    /\ UNCHANGED <<input, bytes, md3_header, frames, tags>>

\* read_many returns vec; Ok(Md3 { header, frames, tags, surfaces })
ReturnMd3 ==
    /\ pc = "surfaces"
    /\ ~SurfaceLoopContinues
    /\ outcome' = [tag |-> "Ok",
                   md3 |-> [header |-> md3_header, frames |-> frames,
                            tags |-> tags, surfaces |-> surfaces]]
    /\ pc' = "done"
    /\ UNCHANGED <<input, bytes, buff, md3_header, frames, tags, surfaces,
                   surface_starts>>

----------------------------------------------------------------------------
(* The buffers from_bytes is run on: Models written out in the binary      *)
(* layout (header at 0, sections at the offsets the headers declare), then *)
(* optionally overwritten in places and cut short.                         *)

MaxFrames == 2

MaxTags == 2

MaxSurfaces == 2

MaxElems == 2

\* unused bytes between a surface header and its first array
SmallGap == 4

\* unused bytes between the last array of a surface and its ofs_end
BigGap == 112

\* distance of an offset that points beyond the end of the file
FarBy == 40

Rep(b, n) == [i \in 1..n |-> b]

RECURSIVE Flat(_)
Flat(ss) == IF ss = <<>> THEN <<>> ELSE Head(ss) \o Flat(Tail(ss))

EncS32(v) == <<v % 256, (v \div 256) % 256, (v \div 65536) % 256, (v \div 16777216) % 256>>

EncS16(v) == <<v % 256, (v \div 256) % 256>>

EncVec3(p) == EncS32(p.x) \o EncS32(p.y) \o EncS32(p.z)

\* a name field: the text, then (if there is room) a NUL and junk bytes
EncName(text, len, junk) ==
    IF Len(text) < len THEN text \o <<NUL>> \o Rep(junk, len - Len(text) - 1) ELSE text

EncMd3Header(h, junk) ==
    EncS32(h.ident) \o EncS32(h.version) \o EncName(h.name, MAX_QPATH, junk)
    \o EncS32(h.flags) \o EncS32(h.num_frames) \o EncS32(h.num_tags)
    \o EncS32(h.num_surfaces) \o EncS32(h.num_skins) \o EncS32(h.ofs_frames)
    \o EncS32(h.ofs_tags) \o EncS32(h.ofs_surfaces) \o EncS32(h.ofs_eof)

EncFrame(x, junk) ==
    EncVec3(x.min_bounds) \o EncVec3(x.max_bounds) \o EncVec3(x.local_origin)
    \o EncS32(x.radius) \o EncName(x.name, FRAME_NAME_LEN, junk)

EncTag(x, junk) ==
    EncName(x.name, MAX_QPATH, junk) \o EncVec3(x.origin)
    \o EncVec3(x.axis[1]) \o EncVec3(x.axis[2]) \o EncVec3(x.axis[3])

EncSurfaceHeader(h, junk) ==
    EncS32(h.ident) \o EncName(h.name, MAX_QPATH, junk) \o EncS32(h.flags)
    \o EncS32(h.num_frames) \o EncS32(h.num_shaders) \o EncS32(h.num_verts)
    \o EncS32(h.num_triangles) \o EncS32(h.ofs_triangles) \o EncS32(h.ofs_shaders)
    \o EncS32(h.ofs_st) \o EncS32(h.ofs_xyznormal) \o EncS32(h.ofs_end)

EncShader(x, junk) == EncName(x.name, MAX_QPATH, junk) \o EncS32(x.shader_index)

EncTriangle(x) == EncS32(x.indexes[1]) \o EncS32(x.indexes[2]) \o EncS32(x.indexes[3])

EncTexCoord(x) == EncS32(x.st[1]) \o EncS32(x.st[2])

EncVertex(x) == EncS16(x.x) \o EncS16(x.y) \o EncS16(x.z) \o EncS16(x.normal)

\* byte widths of the records in the file
HeaderWidth == 4 + 4 + MAX_QPATH + 9 * 4

FrameWidth == 3 * 12 + 4 + FRAME_NAME_LEN

TagWidth == MAX_QPATH + 4 * 12

SurfaceHeaderWidth == 4 + MAX_QPATH + 10 * 4

ShaderWidth == MAX_QPATH + 4

TriangleWidth == 3 * 4

TexCoordWidth == 2 * 4

VertexWidth == 4 * 2

\* buf with data written at byte offset at
Place(buf, at, data) ==
    [i \in 1..Len(buf) |-> IF i > at /\ i <= at + Len(data) THEN data[i - at] ELSE buf[i]]

EncSurfaceAt(buf, x, start, junk) ==
    LET b1 == Place(buf, start, EncSurfaceHeader(x.header, junk))
        b2 == Place(b1, start + x.header.ofs_shaders,
                    Flat([i \in 1..Len(x.shaders) |-> EncShader(x.shaders[i], junk)]))
        b3 == Place(b2, start + x.header.ofs_triangles,
                    Flat([i \in 1..Len(x.triangles) |-> EncTriangle(x.triangles[i])]))
        b4 == Place(b3, start + x.header.ofs_st,
                    Flat([i \in 1..Len(x.tex_coords) |-> EncTexCoord(x.tex_coords[i])]))
    IN  Place(b4, start + x.header.ofs_xyznormal,
              Flat([i \in 1..Len(x.vertices) |->
                      Flat([j \in 1..Len(x.vertices[i]) |-> EncVertex(x.vertices[i][j])])]))

\* every surface is written where the ofs_end of the one before it ends
RECURSIVE EncSurfacesAt(_, _, _, _)
EncSurfacesAt(buf, ss, start, junk) ==
    IF ss = <<>> THEN buf
    ELSE EncSurfacesAt(EncSurfaceAt(buf, Head(ss), start, junk), Tail(ss),
                       start + Head(ss).header.ofs_end, junk)

\* the file of Model m; unused bytes and the bytes after a NUL hold junk
Encode(m, junk) ==
    LET b0 == Rep(junk, m.header.ofs_eof)
        b1 == Place(b0, 0, EncMd3Header(m.header, junk))
        b2 == Place(b1, m.header.ofs_frames,
                    Flat([i \in 1..Len(m.frames) |-> EncFrame(m.frames[i], junk)]))
        b3 == Place(b2, m.header.ofs_tags,
                    Flat([i \in 1..Len(m.tags) |-> EncTag(m.tags[i], junk)]))
    IN  EncSurfacesAt(b3, m.surfaces, m.header.ofs_surfaces, junk)

----------------------------------------------------------------------------
(* The Models *)

\* a name: short (NUL-terminated in its field) or filling its field
Txt(base, style, len) ==
    IF style = "full" THEN base \o Rep(120, len - Len(base)) ELSE base

\* bits of floats near 1.0 and near -1.0
FloatBits(k) == IF k % 2 = 0 THEN 1065353216 + k ELSE k - 1082130432

MkVec3(k) == [x |-> FloatBits(k), y |-> FloatBits(k + 1), z |-> FloatBits(k + 2)]

MkFrame(i, style) ==
    [min_bounds |-> MkVec3(100 * i), max_bounds |-> MkVec3(100 * i + 10),
     local_origin |-> MkVec3(100 * i + 20), radius |-> FloatBits(100 * i + 30),
     name |-> Txt(<<102, 48 + i>>, style, FRAME_NAME_LEN)]

MkTag(i, style) ==
    [name |-> Txt(<<116, 48 + i>>, style, MAX_QPATH), origin |-> MkVec3(1000 * i),
     axis |-> <<MkVec3(1000 * i + 10), MkVec3(1000 * i + 20), MkVec3(1000 * i + 30)>>]

MkShader(s, i, style) ==
    [name |-> Txt(<<104, 48 + s, 48 + i>>, style, MAX_QPATH), shader_index |-> i - 10 * s]

MkTriangle(s, i) == [indexes |-> <<10 * s + i, 10 * s + i + 1, -(10 * s + i)>>]

MkTexCoord(s, i) == [st |-> <<FloatBits(20 * s + 2 * i), FloatBits(20 * s + 2 * i + 1)>>]

MkVertex(s, fr, i) ==
    [x |-> 1000 * s + 100 * fr + i, y |-> -(1000 * s + 100 * fr + i), z |-> 300 * i,
     normal |-> -32768 + s + fr + i]

\* the offsets of surface kind k with nf frames
SurfaceOffsets(k, nf) ==
    LET shSz  == ShaderWidth * k.nsh
        trSz  == TriangleWidth * k.ntri
        stSz  == TexCoordWidth * k.nv
        xyzSz == VertexWidth * k.nv * nf
        first == SurfaceHeaderWidth + (IF k.lay = "headGap" THEN SmallGap ELSE 0)
        total == first + shSz + trSz + stSz + xyzSz
                 + (IF k.lay = "tailGap" THEN BigGap ELSE 0)
        far   == total + FarBy
        xyzAt == IF k.lay = "vertsFirst" THEN first ELSE first + shSz + trSz + stSz
        shAt  == IF k.lay = "vertsFirst" THEN first + xyzSz ELSE first
    IN  [ofs_shaders   |-> IF k.lay = "farEmpty" /\ shSz = 0 THEN far ELSE shAt,
         ofs_triangles |-> IF k.lay = "farEmpty" /\ trSz = 0 THEN far ELSE shAt + shSz,
         ofs_st        |-> IF k.lay = "farEmpty" /\ stSz = 0 THEN far
                           ELSE shAt + shSz + trSz,
         ofs_xyznormal |-> IF k.lay = "farEmpty" /\ xyzSz = 0 THEN far ELSE xyzAt,
         ofs_end       |-> total]

MkSurface(s, k, nf, style) ==
    LET o == SurfaceOffsets(k, nf) IN
    [header |-> [ident |-> MD3_MAGIC, name |-> Txt(<<115, 48 + s>>, style, MAX_QPATH),
                 flags |-> 10 + s, num_frames |-> nf, num_shaders |-> k.nsh,
                 num_verts |-> k.nv, num_triangles |-> k.ntri,
                 ofs_triangles |-> o.ofs_triangles, ofs_shaders |-> o.ofs_shaders,
                 ofs_st |-> o.ofs_st, ofs_xyznormal |-> o.ofs_xyznormal,
                 ofs_end |-> o.ofs_end],
     shaders    |-> [i \in 1..k.nsh |-> MkShader(s, i, style)],
     triangles  |-> [i \in 1..k.ntri |-> MkTriangle(s, i)],
     tex_coords |-> [i \in 1..k.nv |-> MkTexCoord(s, i)],
     vertices   |-> [fr \in 1..nf |-> [i \in 1..k.nv |-> MkVertex(s, fr, i)]]]

RECURSIVE SumEnds(_)
SumEnds(ss) == IF ss = <<>> THEN 0 ELSE Head(ss).header.ofs_end + SumEnds(Tail(ss))

\* the Model with nf frames, nt tags and surfaces of the kinds ks; far names
\* the empty top-level section (if any) whose offset points beyond the end
MkModel(nf, nt, ks, style, far) ==
    LET ss    == [s \in 1..Len(ks) |-> MkSurface(s, ks[s], nf, style)]
        fAt   == HeaderWidth
        tAt   == fAt + FrameWidth * nf
        sAt   == tAt + TagWidth * nt
        eof   == sAt + SumEnds(ss)
    IN  [header |-> [ident |-> MD3_MAGIC, version |-> 15,
                     name |-> Txt(<<109, 195, 169>>, style, MAX_QPATH), flags |-> -2,
                     num_frames |-> nf, num_tags |-> nt, num_surfaces |-> Len(ks),
                     num_skins |-> 0,
                     ofs_frames |-> IF far = "frames" THEN eof + FarBy ELSE fAt,
                     ofs_tags |-> IF far = "tags" THEN eof + FarBy ELSE tAt,
                     ofs_surfaces |-> IF far = "surfaces" THEN eof + FarBy ELSE sAt,
                     ofs_eof |-> eof],
         frames |-> [i \in 1..nf |-> MkFrame(i, style)],
         tags |-> [i \in 1..nt |-> MkTag(i, style)],
         surfaces |-> ss]

Layouts == {"packed", "headGap", "tailGap", "vertsFirst", "farEmpty"}

Shapes == {<<0, 0, 0>>, <<MaxElems, 1, 1>>, <<1, MaxElems, 0>>, <<0, 1, MaxElems>>}

Kind(sh, lay) == [nsh |-> sh[1], ntri |-> sh[2], nv |-> sh[3], lay |-> lay]

FirstKinds == {Kind(sh, lay) : sh \in Shapes, lay \in Layouts}

NextKinds == {Kind(<<1, 1, MaxElems>>, "packed"), Kind(<<1, 1, MaxElems>>, "tailGap")}

\* the kinds of the surfaces of a file: any kind first, then kinds of NextKinds
KindSeqs ==
    UNION {{ks \in [1..n -> FirstKinds \cup NextKinds] :
              \A i \in 1..n : IF i = 1 THEN ks[i] \in FirstKinds ELSE ks[i] \in NextKinds}
           : n \in 0..MaxSurfaces}

Fars(nf, nt, ks) ==
    {"none"} \cup (IF nf = 0 THEN {"frames"} ELSE {})
             \cup (IF nt = 0 THEN {"tags"} ELSE {})
             \cup (IF ks = <<>> THEN {"surfaces"} ELSE {})

\* the numbers of frames and tags of a file
Counts == {<<0, 0>>, <<MaxFrames, 0>>, <<1, MaxTags>>}

Models ==
    UNION {{MkModel(c[1], c[2], ks, style, far) : far \in Fars(c[1], c[2], ks)} :
           c \in Counts, ks \in KindSeqs, style \in {"short", "full"}}

----------------------------------------------------------------------------
(* The inputs: a Model, the junk byte, the patches applied to its file and *)
(* the number of bytes that are kept                                       *)

RECURSIVE ApplyPatches(_, _)
ApplyPatches(buf, ps) ==
    IF ps = <<>> THEN buf
    ELSE ApplyPatches(Place(buf, Head(ps).at, Head(ps).data), Tail(ps))

Build(inp) ==
    LET b == ApplyPatches(Encode(inp.model, inp.junk), inp.patches)
    IN  SubSeq(b, 1, inp.cut)

Whole(kind, m, junk, ps) ==
    [kind |-> kind, model |-> m, junk |-> junk, patches |-> ps, cut |-> m.header.ofs_eof]

\* offset of the k-th i32 after the name in the file header / in a surface header
HeaderField(k) == 8 + MAX_QPATH + 4 * k

SurfaceField(k) == 4 + MAX_QPATH + 4 * k

SetS32(at, v) == [at |-> at, data |-> EncS32(v)]

Base1 == MkModel(MaxFrames, MaxTags, <<Kind(<<1, 1, MaxElems>>, "packed")>>, "short", "none")

Base2 ==
    MkModel(MaxFrames, MaxTags,
            <<Kind(<<MaxElems, 1, 1>>, "packed"), Kind(<<1, 1, MaxElems>>, "packed")>>,
            "short", "none")

\* every Model with NUL or 0xFF as junk, two of them with the letter A as junk
Plain ==
    {Whole("plain", m, junk, <<>>) : m \in Models, junk \in {0, 255}}
    \cup {Whole("plain", m, 65, <<>>) : m \in {Base1, Base2}}

\* a file cut short at every length
Truncated ==
    {[kind |-> "truncated", model |-> Base1, junk |-> 0, patches |-> <<>>, cut |-> c] :
       c \in 0..(Base1.header.ofs_eof - 1)}

\* one byte of the magic changed; also with nothing after the magic
BadMagic ==
    {Whole("badmagic", Base1, 0, <<[at |-> i, data |-> <<b>>]>>) : i \in 0..3, b \in {0, 255}}
    \cup {[kind |-> "badmagic", model |-> Base1, junk |-> 0,
           patches |-> <<[at |-> 3, data |-> <<50>>]>>, cut |-> c] : c \in {4, 8}}

\* where the name fields of Base2 start
NameFields ==
    {8, Base2.header.ofs_surfaces + 4,
     Base2.header.ofs_surfaces + Base2.surfaces[1].header.ofs_end + 4}
    \cup {Base2.header.ofs_frames + FrameWidth * (i - 1) + 40 : i \in 1..MaxFrames}
    \cup {Base2.header.ofs_tags + TagWidth * (i - 1) : i \in 1..MaxTags}
    \cup {Base2.header.ofs_surfaces + Base2.surfaces[1].header.ofs_shaders
            + ShaderWidth * (i - 1) : i \in 1..MaxElems}

\* bytes that are not well-formed UTF-8: a stray 0xFF, a lead byte without its
\* continuation, an encoded surrogate
BadTexts == {<<255>>, <<195, 65>>, <<237, 160, 128>>}

BadName ==
    {Whole("badname", Base2, 0, <<[at |-> n + k, data |-> t]>>) :
       n \in NameFields, k \in {0, 1}, t \in BadTexts}

HeaderPatches ==
    LET eof == Base2.header.ofs_eof
        sAt == Base2.header.ofs_surfaces
    IN  {<<SetS32(HeaderField(3), 0)>>,
         <<SetS32(HeaderField(3), 1)>>,
         <<SetS32(HeaderField(5), eof + FarBy)>>,
         <<SetS32(HeaderField(5), eof)>>,
         <<SetS32(HeaderField(6), eof + FarBy)>>,
         <<SetS32(HeaderField(7), eof + FarBy)>>,
         <<SetS32(HeaderField(7), eof)>>,
         <<SetS32(HeaderField(7), -8)>>,
         <<SetS32(HeaderField(1), 0), SetS32(HeaderField(5), eof + FarBy)>>,
         <<SetS32(HeaderField(2), 0), SetS32(HeaderField(6), eof + FarBy)>>,
         <<SetS32(HeaderField(3), 0), SetS32(HeaderField(7), eof + FarBy)>>,
         <<SetS32(HeaderField(1), MaxFrames + 3)>>,
         <<SetS32(HeaderField(1), -1)>>,
         <<SetS32(sAt + SurfaceField(6), -4)>>,
         <<SetS32(sAt + SurfaceField(8), -(sAt + 1))>>,
         <<SetS32(sAt + SurfaceField(7), eof + FarBy)>>,
         <<SetS32(sAt + SurfaceField(3), 0), SetS32(sAt + SurfaceField(7), eof + FarBy),
           SetS32(sAt + SurfaceField(8), Base2.surfaces[1].header.ofs_end)>>,
         <<SetS32(sAt + Base2.surfaces[1].header.ofs_end + SurfaceField(4), 6)>>}

Patched == {Whole("patched", Base2, 0, ps) : ps \in HeaderPatches}

Inputs == Plain \cup Truncated \cup BadMagic \cup BadName \cup Patched

----------------------------------------------------------------------------

Init ==
    /\ input \in Inputs
    /\ bytes = Build(input)
    /\ pc = "start"
    /\ buff = NewCursor
    /\ md3_header = NoHeader
    /\ frames = <<>>
    /\ tags = <<>>
    /\ surfaces = <<>>
    /\ surface_starts = <<>>
    /\ outcome = Running

Next ==
    \/ CheckMagic
    \/ ReadMd3Header
    \/ ReadFrames
    \/ ReadTags
    \/ SeekSurfaces
    \/ ReadSurface
    \/ ReturnMd3

Spec == Init /\ [][Next]_vars

----------------------------------------------------------------------------
(* Properties *)

\* a cursor at byte offset p that has read nothing
At(p) == [NewCursor EXCEPT !.pos = p]

Last(s) == s[Len(s)]

\* the buffer does not start with the bytes "IDP3"
BadMagicBytes ==
    Len(bytes) >= 4 /\ <<bytes[1], bytes[2], bytes[3], bytes[4]>> # <<73, 68, 80, 51>>

\* C1: a buffer whose first 4 bytes are not the magic makes from_bytes fail
\* with the invalid-magic error (ErrorKind::InvalidData), and the 4-byte read
\* at offset 0 is the only read ever performed.
C1_BadMagicStopsAtFirstRead ==
    (BadMagicBytes /\ pc # "start") =>
        /\ pc = "done"
        /\ outcome = [tag |-> "Err", kind |-> "InvalidData"]
        /\ buff.reads = << <<0, 4, TRUE>> >>

C1_Witness == BadMagicBytes /\ pc = "done" /\ Len(bytes) >= HeaderWidth

\* C2: a file with a valid header that is cut short inside a declared section
\* makes from_bytes return Err of kind UnexpectedEof to its caller, raised at
\* the first read whose bytes are missing.
C2_TruncationReturnsUnexpectedEof ==
    (input.kind = "truncated" /\ input.cut >= HeaderWidth /\ pc = "done") =>
        /\ outcome = [tag |-> "Err", kind |-> "UnexpectedEof"]
        /\ Last(buff.reads)[3] = FALSE
        /\ \A i \in 1..(Len(buff.reads) - 1) : buff.reads[i][3] = TRUE

\* C3: decoding the file of a Model returns Ok with a Model equal to it.
C3_RoundTrip ==
    (input.kind = "plain" /\ pc = "done") =>
        outcome = [tag |-> "Ok", md3 |-> input.model]

\* C4: when a surface is finished and another one follows, the cursor stands
\* at surface_start + ofs_end of the finished surface, which is where the
\* next surface header is decoded.
C4_NextSurfaceAtOfsEnd ==
    (input.kind = "plain" /\ pc = "surfaces" /\ surfaces # <<>> /\ SurfaceLoopContinues) =>
        buff.pos = Last(surface_starts) + AsU64(Last(surfaces).header.ofs_end)

\* the text of a name field: the bytes before its first NUL, or all of them
UpToNul(field) ==
    LET nuls == {i \in 1..Len(field) : field[i] = NUL} IN
    IF nuls = {} THEN field
    ELSE SubSeq(field, 1, (CHOOSE i \in nuls : \A j \in nuls : i <= j) - 1)

\* the name decoded from the len-byte field at p is text: read_string there
\* ends len bytes further and yields the bytes before the first NUL
NameReadAt(p, len, text) ==
    LET a == read_string(At(p), len) IN
      /\ a.r.err = "none"
      /\ a.r.pos = p + len
      /\ a.v = text
      /\ text = UpToNul(SubSeq(bytes, p + 1, p + len))

\* C5: every name the decoder produced is the part of its fixed-length field
\* before the first NUL (the whole field if it has none), whatever follows
\* the NUL, and the cursor moved by exactly the field length, so that the
\* field after the name is decoded from the byte after the field.
C5_FixedLengthNames ==
    /\ md3_header # NoHeader =>
         /\ NameReadAt(8, MAX_QPATH, md3_header.name)
         /\ md3_header.flags = read_s32(At(8 + MAX_QPATH)).v
    /\ \A i \in 1..Len(frames) :
         NameReadAt(AsU64(md3_header.ofs_frames) + FrameWidth * i - FRAME_NAME_LEN,
                    FRAME_NAME_LEN, frames[i].name)
    /\ \A i \in 1..Len(tags) :
         /\ NameReadAt(AsU64(md3_header.ofs_tags) + TagWidth * (i - 1), MAX_QPATH,
                       tags[i].name)
         /\ tags[i].origin
              = read_vec3(At(AsU64(md3_header.ofs_tags) + TagWidth * (i - 1) + MAX_QPATH)).v
    /\ \A i \in 1..Len(surfaces) :
         /\ NameReadAt(surface_starts[i] + 4, MAX_QPATH, surfaces[i].header.name)
         /\ surfaces[i].header.flags = read_s32(At(surface_starts[i] + 4 + MAX_QPATH)).v
         /\ \A j \in 1..Len(surfaces[i].shaders) :
              LET p == surface_starts[i] + AsU64(surfaces[i].header.ofs_shaders)
                       + ShaderWidth * (j - 1) IN
                /\ NameReadAt(p, MAX_QPATH, surfaces[i].shaders[j].name)
                /\ surfaces[i].shaders[j].shader_index = read_s32(At(p + MAX_QPATH)).v

\* a frame name of 2 bytes was decoded from a field that holds a NUL at
\* index 2 and 0xFF after it, and a surface name that fills its field
C5_Witness ==
    /\ outcome.tag = "Ok"
    /\ frames # <<>>
    /\ Len(frames[1].name) = 2
    /\ bytes[AsU64(md3_header.ofs_frames) + FrameWidth] = 255

\* C6: a name field whose bytes before the first NUL are not valid UTF-8
\* makes from_bytes return Err of kind InvalidEncoding to its caller.
C6_BadNameReturnsInvalidEncoding ==
    (input.kind = "badname" /\ pc = "done") =>
        outcome = [tag |-> "Err", kind |-> "InvalidEncoding"]

\* where the i-th surface of the file starts: at ofs_surfaces, and then at
\* the ofs_end that the surface before it declares
RECURSIVE SurfaceAt(_)
SurfaceAt(i) ==
    IF i = 1 THEN AsU64(md3_header.ofs_surfaces)
    ELSE LET p == SurfaceAt(i - 1) IN p + AsU64(read_s32(At(p + SurfaceField(9))).v)

\* C7: in the returned Model, element i of every collection is the record
\* at the i-th record position of its section: section start plus i record
\* widths for frames, tags, shaders, triangles, texture coordinates and
\* vertices, and the i-th surface of the file for surfaces.
C7_OrderPreserving ==
    (input.kind = "plain" /\ outcome.tag = "Ok") =>
      LET m == outcome.md3 IN
        /\ \A i \in 1..Len(m.frames) :
             m.frames[i]
               = read_frame(At(AsU64(m.header.ofs_frames) + FrameWidth * (i - 1))).v
        /\ \A i \in 1..Len(m.tags) :
             m.tags[i] = read_tag(At(AsU64(m.header.ofs_tags) + TagWidth * (i - 1))).v
        /\ \A i \in 1..Len(m.surfaces) :
             LET p == SurfaceAt(i)
                 x == m.surfaces[i]
                 h == x.header
             IN  /\ h = read_surface_header(At(p)).v
                 /\ \A j \in 1..Len(x.shaders) :
                      x.shaders[j]
                        = read_shader(At(p + AsU64(h.ofs_shaders) + ShaderWidth * (j - 1))).v
                 /\ \A j \in 1..Len(x.triangles) :
                      x.triangles[j]
                        = read_triangle(At(p + AsU64(h.ofs_triangles)
                                           + TriangleWidth * (j - 1))).v
                 /\ \A j \in 1..Len(x.tex_coords) :
                      x.tex_coords[j]
                        = read_tex_coord(At(p + AsU64(h.ofs_st) + TexCoordWidth * (j - 1))).v
                 /\ \A fr \in 1..Len(x.vertices) : \A j \in 1..Len(x.vertices[fr]) :
                      x.vertices[fr][j]
                        = read_vertex(At(p + AsU64(h.ofs_xyznormal)
                                         + VertexWidth * (h.num_verts * (fr - 1) + j - 1))).v

\* C8: with num_surfaces = 0, once the header, the frames and the tags are
\* decoded, seeking to ofs_surfaces and reading the surfaces performs no
\* read, and from_bytes returns Ok with an empty surfaces sequence.
C8_NoSurfaces ==
    [][ /\ (pc = "seek_surfaces" /\ md3_header.num_surfaces = 0) =>
              (pc' = "surfaces" /\ buff'.reads = buff.reads /\ outcome' = Running)
        /\ (pc = "surfaces" /\ md3_header.num_surfaces = 0) =>
              /\ pc' = "done"
              /\ buff'.reads = buff.reads
              /\ outcome'.tag = "Ok"
              /\ outcome'.md3.surfaces = <<>>
              /\ outcome'.md3.frames = frames
              /\ outcome'.md3.tags = tags ]_vars

\* a file that has bytes at ofs_surfaces and frames and tags before them
C8_Witness ==
    /\ outcome.tag = "Ok"
    /\ md3_header.num_surfaces = 0
    /\ frames # <<>>
    /\ tags # <<>>
    /\ md3_header.ofs_surfaces + SurfaceHeaderWidth <= Len(bytes)

\* C9: every decoded surface has its four arrays read at surface_start plus
\* the offset of its own header, with the sizes of its own header:
\* num_shaders shaders, num_triangles triangles, num_verts texture
\* coordinates, and num_frames frames of num_verts vertices each.
C9_SubArraysRelativeToSurfaceStart ==
    \A i \in 1..Len(surfaces) :
      LET s == surface_starts[i]
          x == surfaces[i]
          h == x.header
      IN  /\ Len(x.shaders) = h.num_shaders
          /\ Len(x.triangles) = h.num_triangles
          /\ Len(x.tex_coords) = h.num_verts
          /\ Len(x.vertices) = h.num_frames
          /\ \A fr \in 1..Len(x.vertices) : Len(x.vertices[fr]) = h.num_verts
          /\ x.shaders = read_many(At(s + AsU64(h.ofs_shaders)), [f |-> "read_shader"],
                                   h.num_shaders).v
          /\ x.triangles = read_many(At(s + AsU64(h.ofs_triangles)),
                                     [f |-> "read_triangle"], h.num_triangles).v
          /\ x.tex_coords = read_many(At(s + AsU64(h.ofs_st)), [f |-> "read_tex_coord"],
                                      h.num_verts).v
          /\ x.vertices = read_many(At(s + AsU64(h.ofs_xyznormal)),
                                    [f |-> "closure", num_verts |-> h.num_verts],
                                    h.num_frames).v
          /\ h.num_shaders > 0 =>
               \E k \in 1..Len(buff.reads) :
                  buff.reads[k] = <<s + AsU64(h.ofs_shaders), 1, TRUE>>
          /\ h.num_triangles > 0 =>
               \E k \in 1..Len(buff.reads) :
                  buff.reads[k] = <<s + AsU64(h.ofs_triangles), 4, TRUE>>
          /\ h.num_verts > 0 =>
               \E k \in 1..Len(buff.reads) :
                  buff.reads[k] = <<s + AsU64(h.ofs_st), 4, TRUE>>
          /\ (h.num_verts > 0 /\ h.num_frames > 0) =>
               \E k \in 1..Len(buff.reads) :
                  buff.reads[k] = <<s + AsU64(h.ofs_xyznormal), 2, TRUE>>

\* a surface that does not start the file, with all four arrays non-empty
\* and the vertices placed before the shaders
C9_Witness ==
    /\ surfaces # <<>>
    /\ surface_starts[1] > HeaderWidth
    /\ surfaces[1].shaders # <<>>
    /\ surfaces[1].triangles # <<>>
    /\ surfaces[1].tex_coords # <<>>
    /\ surfaces[1].vertices # <<>>
    /\ surfaces[1].header.ofs_xyznormal < surfaces[1].header.ofs_shaders

\* the step reads count records of a section whose offset ofs is at or
\* beyond the end of the buffer: with count 0 it goes on without a read,
\* otherwise the first read (of n bytes, at the offset) fails
FarSection(here, ofs, count, n, there) ==
    (pc = here /\ IsBeyond(AsU64(ofs))) =>
        IF count = 0
        THEN pc' = there /\ buff'.err = "none" /\ buff'.reads = buff.reads
        ELSE /\ pc' = "done"
             /\ outcome' = [tag |-> "panic", kind |-> "UnexpectedEof"]
             /\ buff'.reads = Append(buff.reads, <<AsU64(ofs), n, FALSE>>)

\* C10: a seek to a position at or beyond the end of the buffer succeeds;
\* only a read there fails, with UnexpectedEof, and a section at such an
\* offset with count 0 is decoded as the empty sequence without an error.
C10_SeekNeverFails ==
    [][ /\ FarSection("frames", md3_header.ofs_frames, md3_header.num_frames, 4, "tags")
        /\ (pc = "frames" /\ pc' = "tags" /\ md3_header.num_frames = 0) => frames' = <<>>
        /\ FarSection("tags", md3_header.ofs_tags, md3_header.num_tags, 1, "seek_surfaces")
        /\ (pc = "tags" /\ pc' = "seek_surfaces" /\ md3_header.num_tags = 0) => tags' = <<>>
        /\ pc = "seek_surfaces" =>
             /\ buff' = [buff EXCEPT !.pos = AsU64(md3_header.ofs_surfaces)]
             /\ buff'.err = "none"
             /\ outcome' = Running
        /\ (pc = "surfaces" /\ IsBeyond(buff.pos)) =>
             IF ~SurfaceLoopContinues
             THEN outcome'.tag = "Ok" /\ outcome'.md3.surfaces = surfaces
             ELSE /\ outcome' = [tag |-> "panic", kind |-> "UnexpectedEof"]
                  /\ buff'.reads = Append(buff.reads, <<buff.pos, 4, FALSE>>) ]_vars

\* from_bytes returned Ok although it had sought beyond the end of the buffer
C10_Witness == outcome.tag = "Ok" /\ buff.pos > Len(bytes) /\ buff.err = "none"

====
